---- MODULE Spec2Model ----
(***************************************************************************)
(* Matching engine and conversation ledger of the dating backend.          *)
(*                                                                         *)
(* The store holds User, Match and Chat documents.  Every request handler  *)
(* is an async function: each `await` on a storage call is a point where   *)
(* other requests may run.  One action of this module is one storage call  *)
(* together with the synchronous code that follows it up to the next       *)
(* storage call (or the response).                                         *)
(*                                                                         *)
(* Arrays of ids (likes, matches, blocked) are kept as multiplicities      *)
(* [Users -> Nat]: the handlers only use includes / push / filter / $pull, *)
(* none of which looks at the order of the elements, but a push does not   *)
(* check for duplicates, so an id can occur more than once.                *)
(*                                                                         *)
(* Document.save() sends only the modified paths.  A push on an array is   *)
(* sent as an atomic $push that increments the version key __v; assigning  *)
(* a whole array (x.likes = x.likes.filter(..)) is sent as $set guarded by *)
(* `__v = the version read`, and fails with VersionError when another      *)
(* save changed __v in between.  `stale` of a request records exactly      *)
(* that: the __v of the document it loaded is no longer the stored one.    *)
(***************************************************************************)
EXTENDS Integers, Sequences, FiniteSets, TLC

\* ------------------------------------------------------------------ bounds
\* Match documents the store may hold in the interleaved runs (a like that
\* could take it past that does not start).
MaxMatches == 2
\* The same, in the runs of one request at a time.
SeqMatches == 1
\* Chat documents the store may hold.
MaxChats == 2
\* Last value of the clock.
MaxTime == 1
\* Largest page number and page size a request asks for.
MaxPage == 2
MaxLimit == 2
\* Largest coordinate of a location, and largest maxDistance of a query.
MaxCoord == 1
\* copies of one id that a likes or blocked array may hold before a further
\* like or block of that id starts (sequential specifications)
MaxCopies == 2
SeqCopies == 1
\* photos a profile may hold
MaxPhotos == 2
\* users in the array a Match is saved with
MaxUsers == 3
\* hours the admin clock runs
MaxClock == 4
\* stored loginAttempts beyond which no further failed login starts
MaxCounted == 6
\* failed attempts that lock an admin account
MaxLoginAttempts == 5
\* hours an admin account stays locked (2 * 60 * 60 * 1000 ms)
LockTime == 2

\* ------------------------------------------------------------- identities
Users == {"A", "B", "C"}
\* A well-formed id that names no stored user.
Ghost == "G"
Ids == Users \cup {Ghost}
\* An id reaches a handler as a string of 24 hex digits.  A user's name here
\* is the string _id.toString() gives (lower case); otherCase[u] is the same
\* id written with upper-case digits, which isMongoId and the ObjectId cast
\* accept as well.
otherCase == [u \in Users |-> IF u = "A" THEN "A^" ELSE IF u = "B" THEN "B^" ELSE "C^"]
\* The ObjectId cast of an id string: the id it spells.
castObjectId(t) ==
    IF \E u \in Users : otherCase[u] = t
    THEN CHOOSE u \in Users : otherCase[u] = t
    ELSE t
\* Requests that can be in flight together.
Procs == {"p1", "p2"}

VARIABLES
    isActive,    \* User.isActive, per user
    isBlocked,   \* User.isBlocked, per user
    profileCompleted, \* User.profileCompleted, per user
    photos,      \* User.photos, per user: the length of the array
    loginAttempts, \* Admin.loginAttempts of the one admin
    lockUntil,   \* Admin.lockUntil of that admin: a time or NoLock
    location,    \* User.location.coordinates, per user: a coordinate on a line or NoLocation
    blockedBy,   \* User.blockedBy, represented as likes is
    likes,       \* User.likes: likes[u][t] = occurrences of t in u.likes
    matches,     \* User.matches, same representation
    blocked,     \* User.blocked, same representation
    matchDocs,   \* the Match collection; a match's _id is its index
    chats,       \* the Chat collection; a message's _id is its index
    now,         \* Date.now()
    req,         \* the requests in flight, per slot
    pre          \* history: the store as it was when the traced request started

\* The fields of a User document that only the photo handlers write, or none.
profile == <<isActive, isBlocked, profileCompleted, photos, location, blockedBy>>
\* The fields of the Admin document.
admin == <<loginAttempts, lockUntil>>
vars == <<loginAttempts, lockUntil, isActive, isBlocked, profileCompleted, photos, location, blockedBy, likes, matches, blocked, matchDocs, chats, now, req, pre>>
store == <<likes, matches, blocked, matchDocs, chats>>

\* ---------------------------------------------------------------- helpers
NoIds == [x \in Users |-> 0]
\* includes on an array of ids (MongooseArray.indexOf): an ObjectId is
\* looked up by its toString(), a string as it is written
includes(arr, id) == id \in Users /\ arr[id] > 0
\* Array.prototype.push
push(arr, id) == [arr EXCEPT ![id] = @ + 1]
\* arr.filter(x => x.toString() !== id) for the string id, also the effect
\* of $pull of an ObjectId
without(arr, id) == IF id \in Users THEN [arr EXCEPT ![id] = 0] ELSE arr

\* lockUntil of an admin that has none
NoLock == -1
\* The lock fields of a loaded Admin document.
NoAdmin == [loginAttempts |-> 0, lockUntil |-> NoLock]
\* The photo fields of a loaded User document.
NoDoc == [photos |-> 0, profileCompleted |-> FALSE]
Idle ==
    [op |-> "idle", pc |-> "idle", user |-> Ghost, target |-> Ghost, sent |-> Ghost, mid |-> 0,
     targetLikesMe |-> FALSE, cur |-> NoIds, stale |-> FALSE, pend |-> {}, unread |-> 0,
     at |-> 0, res |-> "none", isMatch |-> FALSE,
     curMatches |-> NoIds, curBlocked |-> NoIds, curBlockedBy |-> NoIds,
     msg |-> 0, page |-> 1, limit |-> 1, maxDistance |-> 0, found |-> <<>>,
     doc |-> NoDoc, users |-> <<>>, adminDoc |-> NoAdmin]

Snapshot ==
    [likes |-> likes, matches |-> matches, blocked |-> blocked,
     matchDocs |-> matchDocs, chats |-> chats]

\* protectUser lets a request through only for a stored, active, unblocked user.
protectUser(u) == u \in Users /\ isActive[u] /\ ~isBlocked[u]

Done(s, r) == [s EXCEPT !.pc = "done", !.res = r, !.cur = NoIds, !.pend = {},
                        !.stale = FALSE, !.targetLikesMe = FALSE, !.unread = 0,
                        !.curMatches = NoIds, !.curBlocked = NoIds, !.curBlockedBy = NoIds,
                        !.doc = NoDoc, !.adminDoc = NoAdmin]


\* A save that increments __v of user x makes every other loaded copy of x stale.
MarkStale(s, x) ==
    IF s.user = x /\ s.pc \in {"dislikeSave", "blockSave", "unblockSave", "photoDeleteSave"} THEN [s EXCEPT !.stale = TRUE] ELSE s

\* ------------------------------------------------------------ Match model
matchPreSave_lengthOnly(us) == Len(us) = 2
\* matchSchema.pre('save'): exactly two users, and they differ.
matchPreSave(us) == Len(us) = 2 /\ us[1] # us[2]
hasUser_any(m, u) == TRUE
hasUser_stored(m, u) == u \in Users
\* matchSchema.methods.hasUser
hasUser(m, u) == \E i \in 1..Len(m.users) : m.users[i] = u
getOtherUser_self(m, u) == u
\* matchSchema.methods.getOtherUser
getOtherUser(m, u) == IF m.users[1] # u THEN m.users[1] ELSE m.users[2]

NewMatch(us) ==
    [users |-> us, isActive |-> TRUE, lastMessageAt |-> now, unreadCount |-> NoIds]

\* Likes in flight that have not yet reached Match.create.
LikesBeforeCreate ==
    {q \in Procs : req[q].op = "like" /\ req[q].pc \in {"likeFindCurrent", "likeSave", "likeCreate"}}

\* targetUserId === currentUserId.toString()
likesSelf(t, u) == t = u
\* !targetUser.isActive || targetUser.isBlocked, negated
targetAvailable(t) == isActive[t] /\ ~isBlocked[t]
mutualLike_wrongSide(s) == includes(likes[s.user], s.target)
\* targetUser.likes.includes(currentUserId), on the target as the handler read it
mutualLike(s) == s.targetLikesMe
matchFound_ignoresActive(mid) == mid # 0
\* !match || !match.isActive, negated (id 0 names no stored match)
matchFound(mid) == mid # 0 /\ matchDocs[mid].isActive

\* Room for one more copy of the id t spells in an array, under a bound of n.
CopyRoom(arr, t, n) == castObjectId(t) \in Users => arr[castObjectId(t)] < n
\* The spellings a caller sends: every id as toString() writes it, and for
\* caller "A" also the caller's own id in the other case.
Spellings(u) == Ids \cup (IF u = "A" THEN {otherCase[u]} ELSE {})
\* Room for one more Match document under a bound of n.
MatchRoom(n) == Len(matchDocs) + Cardinality(LikesBeforeCreate) < n

\* ------------------------------------------------------------------- like
\* POST /like: self check, then User.findById(targetUserId) and its checks.
Like1(p, u, t, track) ==
    /\ req[p].pc = "idle"
    /\ protectUser(u)
    /\ LET c == castObjectId(t)
           s == [Idle EXCEPT !.op = "like", !.user = u, !.target = c, !.sent = t]
       IN req' = [req EXCEPT ![p] =
                IF likesSelf(t, u) THEN Done(s, "InvalidOperation")
                ELSE IF c \notin Users THEN Done(s, "NotFound")
                ELSE IF ~targetAvailable(c) THEN Done(s, "Unavailable")
                ELSE [s EXCEPT !.pc = "likeFindCurrent",
                               !.targetLikesMe = includes(likes[c], u)]]
    /\ pre' = IF track THEN Snapshot ELSE pre
    /\ UNCHANGED <<admin, profile, store, now>>

\* User.findById(currentUserId), the already-liked check, the in-memory push.
Like2(p) ==
    /\ req[p].op = "like" /\ req[p].pc = "likeFindCurrent"
    /\ req' = [req EXCEPT ![p] =
            IF includes(likes[req[p].user], req[p].sent)
            THEN Done(req[p], "AlreadyExists")
            ELSE [req[p] EXCEPT !.pc = "likeSave"]]
    /\ UNCHANGED <<admin, profile, store, now, pre>>

\* currentUser.save(): $push likes; then the mutual-like test on the target
\* document as it was read in Like1.
Like3(p) ==
    LET s == req[p] IN
    /\ s.op = "like" /\ s.pc = "likeSave"
    /\ likes' = [likes EXCEPT ![s.user] = push(@, s.target)]
    /\ req' = [q \in Procs |->
            IF q = p
            THEN IF mutualLike(s)
                 THEN [s EXCEPT !.pc = "likeCreate"]
                 ELSE Done(s, "OK")
            ELSE MarkStale(req[q], s.user)]
    /\ UNCHANGED <<admin, profile, matches, blocked, matchDocs, chats, now, pre>>

\* Match.create({users: [currentUserId, targetUserId]}), then the in-memory pushes.
Like4(p) ==
    LET s == req[p]
        us == <<s.user, s.target>>
    IN
    /\ s.op = "like" /\ s.pc = "likeCreate"
    /\ IF matchPreSave(us)
       THEN /\ matchDocs' = Append(matchDocs, NewMatch(us))
            /\ req' = [req EXCEPT ![p] = [s EXCEPT !.pc = "likeSaveBoth",
                                                   !.mid = Len(matchDocs) + 1,
                                                   !.isMatch = TRUE,
                                                   !.pend = {"current", "target"}]]
       ELSE /\ matchDocs' = matchDocs
            /\ req' = [req EXCEPT ![p] = Done(s, "Internal")]
    /\ UNCHANGED <<admin, profile, likes, matches, blocked, chats, now, pre>>

\* Match.create({users: us}) for any array of user ids: the pre-save hook
\* runs before the insert.
MatchCreate(p, us, track) ==
    /\ req[p].pc = "idle"
    /\ LET s == [Idle EXCEPT !.op = "matchCreate", !.users = us]
       IN IF matchPreSave(us)
          THEN /\ matchDocs' = Append(matchDocs, NewMatch(us))
               /\ req' = [req EXCEPT ![p] = Done([s EXCEPT !.mid = Len(matchDocs) + 1], "OK")]
          ELSE /\ matchDocs' = matchDocs
               /\ req' = [req EXCEPT ![p] = Done(s, "Internal")]
    /\ pre' = IF track THEN Snapshot ELSE pre
    /\ UNCHANGED <<admin, profile, likes, matches, blocked, chats, now>>

\* Promise.all([currentUser.save(), targetUser.save()]): two $push of matches,
\* applied by the store in either order.
Like5(p, w) ==
    LET s == req[p]
        x == IF w = "current" THEN s.user ELSE s.target
        y == IF w = "current" THEN s.target ELSE s.user
        s2 == [s EXCEPT !.pend = @ \ {w}]
    IN
    /\ s.op = "like" /\ s.pc = "likeSaveBoth" /\ w \in s.pend
    /\ matches' = [matches EXCEPT ![x] = push(@, y)]
    /\ req' = [q \in Procs |->
            IF q = p
            THEN IF s2.pend = {} THEN Done(s2, "OK") ELSE s2
            ELSE MarkStale(req[q], x)]
    /\ UNCHANGED <<admin, profile, likes, blocked, matchDocs, chats, now, pre>>

\* ---------------------------------------------------------------- dislike
\* POST /dislike: self check, then User.findById(targetUserId).
Dislike1(p, u, t, track) ==
    /\ req[p].pc = "idle"
    /\ protectUser(u)
    /\ LET c == castObjectId(t)
           s == [Idle EXCEPT !.op = "dislike", !.user = u, !.target = c, !.sent = t]
       IN req' = [req EXCEPT ![p] =
                IF t = u THEN Done(s, "InvalidOperation")
                ELSE IF c \notin Users THEN Done(s, "NotFound")
                ELSE [s EXCEPT !.pc = "dislikeFindCurrent"]]
    /\ pre' = IF track THEN Snapshot ELSE pre
    /\ UNCHANGED <<admin, profile, store, now>>

\* User.findById(currentUserId) and the in-memory filter of likes.
Dislike2(p) ==
    /\ req[p].op = "dislike" /\ req[p].pc = "dislikeFindCurrent"
    /\ req' = [req EXCEPT ![p] = [@ EXCEPT !.pc = "dislikeSave",
                                           !.cur = likes[req[p].user]]]
    /\ UNCHANGED <<admin, profile, store, now, pre>>

\* currentUser.save(): nothing to send when the filter removed nothing;
\* otherwise $set likes under the version read, VersionError when stale.
Dislike3(p) ==
    LET s == req[p] IN
    /\ s.op = "dislike" /\ s.pc = "dislikeSave"
    /\ IF ~includes(s.cur, s.sent)
       THEN /\ likes' = likes
            /\ req' = [req EXCEPT ![p] = Done(s, "OK")]
       ELSE IF s.stale
       THEN /\ likes' = likes
            /\ req' = [req EXCEPT ![p] = Done(s, "Internal")]
       ELSE /\ likes' = [likes EXCEPT ![s.user] = without(s.cur, s.sent)]
            /\ req' = [q \in Procs |->
                    IF q = p THEN Done(s, "OK")
                    ELSE MarkStale(req[q], s.user)]
    /\ UNCHANGED <<admin, profile, matches, blocked, matchDocs, chats, now, pre>>

\* ---------------------------------------------------------------- unmatch
\* DELETE /matches/:matchId: Match.findById, participant check.
Unmatch1(p, u, mid, track) ==
    /\ req[p].pc = "idle"
    /\ protectUser(u)
    /\ mid \in 0..Len(matchDocs)
    /\ LET s == [Idle EXCEPT !.op = "unmatch", !.user = u, !.mid = mid]
       IN req' = [req EXCEPT ![p] =
                IF mid = 0 THEN Done(s, "NotFound")
                ELSE IF ~hasUser(matchDocs[mid], u) THEN Done(s, "Forbidden")
                ELSE [s EXCEPT !.pc = "unmatchPullMine",
                               !.target = getOtherUser(matchDocs[mid], u)]]
    /\ pre' = IF track THEN Snapshot ELSE pre
    /\ UNCHANGED <<admin, profile, store, now>>

\* User.findByIdAndUpdate(userId, {$pull: {matches: otherUserId}})
Unmatch2(p) ==
    LET s == req[p] IN
    /\ s.op = "unmatch" /\ s.pc = "unmatchPullMine"
    /\ matches' = [matches EXCEPT ![s.user] = without(@, s.target)]
    /\ req' = [req EXCEPT ![p] = [s EXCEPT !.pc = "unmatchPullOther"]]
    /\ UNCHANGED <<admin, profile, likes, blocked, matchDocs, chats, now, pre>>

\* User.findByIdAndUpdate(otherUserId, {$pull: {matches: userId}})
Unmatch3(p) ==
    LET s == req[p] IN
    /\ s.op = "unmatch" /\ s.pc = "unmatchPullOther"
    /\ matches' = [matches EXCEPT ![s.target] = without(@, s.user)]
    /\ req' = [req EXCEPT ![p] = [s EXCEPT !.pc = "unmatchSave"]]
    /\ UNCHANGED <<admin, profile, likes, blocked, matchDocs, chats, now, pre>>

\* match.isActive = false; match.save()
Unmatch4(p) ==
    LET s == req[p] IN
    /\ s.op = "unmatch" /\ s.pc = "unmatchSave"
    /\ matchDocs' = [matchDocs EXCEPT ![s.mid].isActive = FALSE]
    /\ req' = [req EXCEPT ![p] = Done(s, "OK")]
    /\ UNCHANGED <<admin, profile, likes, matches, blocked, chats, now, pre>>

\* ------------------------------------------------------------------- send
\* Sends in flight that have not yet inserted their Chat document.
SendsBeforeInsert ==
    {q \in Procs : req[q].op = "send" /\ req[q].pc \in {"sendHook", "sendInsert"}}

\* Room for one more Chat document under a bound of n.
ChatRoom(n) == Len(chats) + Cardinality(SendsBeforeInsert) < n

\* matchSchema.methods.incrementUnread, on the count the handler read
incrementUnread(currentCount) == currentCount + 1

\* POST /chats/:matchId: Match.findById, the active and participant checks.
Send1(p, u, mid, track) ==
    /\ req[p].pc = "idle"
    /\ protectUser(u)
    /\ mid \in 0..Len(matchDocs)
    /\ LET s == [Idle EXCEPT !.op = "send", !.user = u, !.mid = mid, !.at = now]
       IN req' = [req EXCEPT ![p] =
                IF ~matchFound(mid) THEN Done(s, "NotFound")
                ELSE IF ~hasUser(matchDocs[mid], u) THEN Done(s, "Forbidden")
                ELSE [s EXCEPT !.pc = "sendHook",
                               !.target = getOtherUser(matchDocs[mid], u),
                               !.unread = matchDocs[mid].unreadCount[getOtherUser(matchDocs[mid], u)]]]
    /\ pre' = IF track THEN Snapshot ELSE pre
    /\ UNCHANGED <<admin, profile, store, now>>

\* Chat.create, first half: chatSchema.pre('save') on a new document runs
\* Match.findByIdAndUpdate(matchId, {lastMessageAt: new Date()}).
Send2(p) ==
    LET s == req[p] IN
    /\ s.op = "send" /\ s.pc = "sendHook"
    /\ matchDocs' = [matchDocs EXCEPT ![s.mid].lastMessageAt = now]
    /\ req' = [req EXCEPT ![p] = [s EXCEPT !.pc = "sendInsert"]]
    /\ UNCHANGED <<admin, profile, likes, matches, blocked, chats, now, pre>>

\* Chat.create, second half: the document is inserted.
Send3(p) ==
    LET s == req[p] IN
    /\ s.op = "send" /\ s.pc = "sendInsert"
    /\ chats' = Append(chats, [matchId |-> s.mid, sender |-> s.user,
                               isRead |-> FALSE, isDeleted |-> FALSE])
    /\ req' = [req EXCEPT ![p] = [s EXCEPT !.pc = "sendSave"]]
    /\ UNCHANGED <<admin, profile, likes, matches, blocked, matchDocs, now, pre>>

\* match.incrementUnread(otherUserId); match.save(): $set of the one map key.
Send4(p) ==
    LET s == req[p] IN
    /\ s.op = "send" /\ s.pc = "sendSave"
    /\ matchDocs' = [matchDocs EXCEPT ![s.mid].unreadCount[s.target] = incrementUnread(s.unread)]
    /\ req' = [req EXCEPT ![p] = Done(s, "OK")]
    /\ UNCHANGED <<admin, profile, likes, matches, blocked, chats, now, pre>>

\* ----------------------------------------------------------- listMessages
RECURSIVE Reverse(_)
\* Array.prototype.reverse
Reverse(q) == IF q = <<>> THEN <<>> ELSE Append(Reverse(Tail(q)), Head(q))

RECURSIVE oldestFirst(_)
\* The _ids of S in the order of creation.
oldestFirst(S) ==
    IF S = {} THEN <<>>
    ELSE LET m == CHOOSE x \in S : \A y \in S : x <= y
         IN <<m>> \o oldestFirst(S \ {m})

\* cursor.skip(skip).limit(limit)
skipLimit(q, skip, limit) ==
    SubSeq(q, skip + 1, IF skip + limit < Len(q) THEN skip + limit ELSE Len(q))

chatFind_withDeleted(mid, page, limit) ==
    LET S == {i \in DOMAIN chats : chats[i].matchId = mid}
    IN skipLimit(Reverse(oldestFirst(S)), (page - 1) * limit, limit)
\* Chat.find({matchId, isDeleted: false}).sort({createdAt: -1}).skip(skip)
\* .limit(limit), with skip = (page - 1) * limit.
chatFind(mid, page, limit) ==
    LET S == {i \in DOMAIN chats : chats[i].matchId = mid /\ ~chats[i].isDeleted}
    IN skipLimit(Reverse(oldestFirst(S)), (page - 1) * limit, limit)

resetUnread_both(unreadCount, u) == [x \in DOMAIN unreadCount |-> 0]
\* matchSchema.methods.resetUnread
resetUnread(unreadCount, u) == [unreadCount EXCEPT ![u] = 0]

\* Chat.updateMany({matchId, sender: {$ne: userId}, isRead: false,
\* isDeleted: false}, {isRead: true, ..}) of listMessages.
listUpdateMany(cs, mid, u) ==
    [i \in DOMAIN cs |->
        IF cs[i].matchId = mid /\ cs[i].sender # u /\ ~cs[i].isRead /\ ~cs[i].isDeleted
        THEN [cs[i] EXCEPT !.isRead = TRUE] ELSE cs[i]]

\* GET /chats/:matchId: Match.findById, the active and participant checks.
List1(p, u, mid, page, limit, track) ==
    /\ req[p].pc = "idle"
    /\ protectUser(u)
    /\ mid \in 0..Len(matchDocs)
    /\ LET s == [Idle EXCEPT !.op = "list", !.user = u, !.mid = mid,
                             !.page = page, !.limit = limit]
       IN req' = [req EXCEPT ![p] =
                IF ~matchFound(mid) THEN Done(s, "NotFound")
                ELSE IF ~hasUser(matchDocs[mid], u) THEN Done(s, "Forbidden")
                ELSE [s EXCEPT !.pc = "listFind"]]
    /\ pre' = IF track THEN Snapshot ELSE pre
    /\ UNCHANGED <<admin, profile, store, now>>

\* Chat.find(..): the page that will be returned, reversed to oldest first.
List2(p) ==
    LET s == req[p] IN
    /\ s.op = "list" /\ s.pc = "listFind"
    /\ req' = [req EXCEPT ![p] = [s EXCEPT !.pc = "listUpdate",
                                          !.found = Reverse(chatFind(s.mid, s.page, s.limit))]]
    /\ UNCHANGED <<admin, profile, store, now, pre>>

\* Chat.updateMany(..): the other user's unread messages become read.
List3(p) ==
    LET s == req[p] IN
    /\ s.op = "list" /\ s.pc = "listUpdate"
    /\ chats' = listUpdateMany(chats, s.mid, s.user)
    /\ req' = [req EXCEPT ![p] = [s EXCEPT !.pc = "listSave"]]
    /\ UNCHANGED <<admin, profile, likes, matches, blocked, matchDocs, now, pre>>

\* match.resetUnread(userId); match.save(): $set of the one map key.
List4(p) ==
    LET s == req[p] IN
    /\ s.op = "list" /\ s.pc = "listSave"
    /\ matchDocs' = [matchDocs EXCEPT ![s.mid].unreadCount = resetUnread(@, s.user)]
    /\ req' = [req EXCEPT ![p] = Done(s, "OK")]
    /\ UNCHANGED <<admin, profile, likes, matches, blocked, chats, now, pre>>

\* --------------------------------------------------------------- markRead
\* Chat.updateMany(..) of PUT /chats/:matchId/read.
readUpdateMany_all(cs, mid, u) ==
    [i \in DOMAIN cs |->
        IF cs[i].matchId = mid /\ ~cs[i].isRead /\ ~cs[i].isDeleted
        THEN [cs[i] EXCEPT !.isRead = TRUE] ELSE cs[i]]
readUpdateMany(cs, mid, u) ==
    [i \in DOMAIN cs |->
        IF cs[i].matchId = mid /\ cs[i].sender # u /\ ~cs[i].isRead /\ ~cs[i].isDeleted
        THEN [cs[i] EXCEPT !.isRead = TRUE] ELSE cs[i]]

\* PUT /chats/:matchId/read: Match.findById, the active and participant checks.
Read1(p, u, mid, track) ==
    /\ req[p].pc = "idle"
    /\ protectUser(u)
    /\ mid \in 0..Len(matchDocs)
    /\ LET s == [Idle EXCEPT !.op = "markRead", !.user = u, !.mid = mid]
       IN req' = [req EXCEPT ![p] =
                IF ~matchFound(mid) THEN Done(s, "NotFound")
                ELSE IF ~hasUser(matchDocs[mid], u) THEN Done(s, "Forbidden")
                ELSE [s EXCEPT !.pc = "readUpdate"]]
    /\ pre' = IF track THEN Snapshot ELSE pre
    /\ UNCHANGED <<admin, profile, store, now>>

\* Chat.updateMany(..)
Read2(p) ==
    LET s == req[p] IN
    /\ s.op = "markRead" /\ s.pc = "readUpdate"
    /\ chats' = readUpdateMany(chats, s.mid, s.user)
    /\ req' = [req EXCEPT ![p] = [s EXCEPT !.pc = "readSave"]]
    /\ UNCHANGED <<admin, profile, likes, matches, blocked, matchDocs, now, pre>>

\* match.resetUnread(userId); match.save()
Read3(p) ==
    LET s == req[p] IN
    /\ s.op = "markRead" /\ s.pc = "readSave"
    /\ matchDocs' = [matchDocs EXCEPT ![s.mid].unreadCount = resetUnread(@, s.user)]
    /\ req' = [req EXCEPT ![p] = Done(s, "OK")]
    /\ UNCHANGED <<admin, profile, likes, matches, blocked, chats, now, pre>>

\* ---------------------------------------------------------- deleteMessage
isSender_any(m, u) == TRUE
\* message.sender.toString() !== userId.toString(), negated
isSender(m, u) == m.sender = u

\* DELETE /chats/:matchId/messages/:messageId: Match.findById and its checks.
Delete1(p, u, mid, msg, track) ==
    /\ req[p].pc = "idle"
    /\ protectUser(u)
    /\ mid \in 0..Len(matchDocs)
    /\ LET s == [Idle EXCEPT !.op = "delete", !.user = u, !.mid = mid, !.msg = msg]
       IN req' = [req EXCEPT ![p] =
                IF ~matchFound(mid) THEN Done(s, "NotFound")
                ELSE IF ~hasUser(matchDocs[mid], u) THEN Done(s, "Forbidden")
                ELSE [s EXCEPT !.pc = "deleteFind"]]
    /\ pre' = IF track THEN Snapshot ELSE pre
    /\ UNCHANGED <<admin, profile, store, now>>

\* Chat.findById(messageId): the message must exist, belong to the match and
\* be the requester's own.
Delete2(p) ==
    LET s == req[p] IN
    /\ s.op = "delete" /\ s.pc = "deleteFind"
    /\ req' = [req EXCEPT ![p] =
            IF s.msg \notin DOMAIN chats \/ chats[s.msg].matchId # s.mid
            THEN Done(s, "NotFound")
            ELSE IF ~isSender(chats[s.msg], s.user) THEN Done(s, "Forbidden")
            ELSE [s EXCEPT !.pc = "deleteSave"]]
    /\ UNCHANGED <<admin, profile, store, now, pre>>

\* chatSchema.methods.softDelete: isDeleted = true (and deletedAt); save().
Delete3(p) ==
    LET s == req[p] IN
    /\ s.op = "delete" /\ s.pc = "deleteSave"
    /\ chats' = [chats EXCEPT ![s.msg].isDeleted = TRUE]
    /\ req' = [req EXCEPT ![p] = Done(s, "OK")]
    /\ UNCHANGED <<admin, profile, likes, matches, blocked, matchDocs, now, pre>>

\* ------------------------------------------------------------ unread count
\* GET /chats/unread/count: the chat routes require Chat and Match only, so
\* evaluating `User` in User.findById(userId) throws a ReferenceError; the
\* handler's catch answers 500 "Server error".
Unread1(p, u, track) ==
    /\ req[p].pc = "idle"
    /\ protectUser(u)
    /\ req' = [req EXCEPT ![p] = Done([Idle EXCEPT !.op = "unreadCount", !.user = u], "Internal")]
    /\ pre' = IF track THEN Snapshot ELSE pre
    /\ UNCHANGED <<admin, profile, store, now>>

\* -------------------------------------------------------------- discovery
\* location.coordinates of a user document whose coordinates were never set.
NoLocation == -1
\* user.location as the handler tests it.  location is a nested path of the
\* schema (type, with default 'Point', and coordinates): on a loaded document
\* it is an object whether or not coordinates were ever set.
userLocation(u) == [type |-> "Point", coordinates |-> location[u]]
\* JavaScript's !x for an object.
isFalsy(x) == FALSE

\* calculateDistance and $near's distance, on the line.
calculateDistance(a, b) == IF location[a] >= location[b] THEN location[a] - location[b]
                           ELSE location[b] - location[a]

idNe_off(c, u) == TRUE
\* _id: {$ne: user._id}
idNe(c, u) == c # u
idNin_likesOnly(c, s) == ~includes(s.cur, c)
\* _id: {$nin: [...user.likes, ...user.blocked, ...user.blockedBy]}, on the
\* user document as the handler read it
idNin(c, s) ==
    ~includes(s.cur, c) /\ ~includes(s.curBlocked, c) /\ ~includes(s.curBlockedBy, c)

\* The query of GET /discovery: the users it selects for the request s.
query(s) ==
    {c \in Users :
        /\ idNe(c, s.user)
        /\ isActive[c]
        /\ ~isBlocked[c]
        /\ profileCompleted[c]
        /\ location[c] # NoLocation
        /\ calculateDistance(s.user, c) <= s.maxDistance
        /\ idNin(c, s)}

\* The orders $near can return the users of S in: nearest first, users at
\* the same distance in any order.
nearOrders(S, u) ==
    {q \in [1..Cardinality(S) -> S] :
        /\ \A i \in DOMAIN q, j \in DOMAIN q : i # j => q[i] # q[j]
        /\ \A i \in DOMAIN q, j \in DOMAIN q :
              i < j => calculateDistance(u, q[i]) <= calculateDistance(u, q[j])}

\* GET /discovery: User.findById(req.user._id).
Discover1(p, u, page, limit, maxDistance, track) ==
    /\ req[p].pc = "idle"
    /\ protectUser(u)
    /\ LET s == [Idle EXCEPT !.op = "discover", !.user = u,
                             !.page = page, !.limit = limit, !.maxDistance = maxDistance]
       IN req' = [req EXCEPT ![p] =
                IF isFalsy(userLocation(u)) THEN Done(s, "PreconditionFailed")
                ELSE [s EXCEPT !.pc = "discoverFind",
                               !.cur = likes[u], !.curBlocked = blocked[u],
                               !.curBlockedBy = blockedBy[u]]]
    /\ pre' = IF track THEN Snapshot ELSE pre
    /\ UNCHANGED <<admin, profile, store, now>>

\* User.find(query).limit(limit).skip(skip), with skip = (page - 1) * limit.
\* $near around a $geometry without coordinates is rejected by the database:
\* the handler's catch answers 500.
Discover2(p) ==
    LET s == req[p] IN
    /\ s.op = "discover" /\ s.pc = "discoverFind"
    /\ IF location[s.user] = NoLocation
       THEN req' = [req EXCEPT ![p] = Done(s, "Internal")]
       ELSE \E q \in nearOrders(query(s), s.user) :
               req' = [req EXCEPT ![p] =
                    [Done(s, "OK") EXCEPT !.found = skipLimit(q, (s.page - 1) * s.limit, s.limit)]]
    /\ UNCHANGED <<admin, profile, store, now, pre>>

\* ------------------------------------------------------------------ block
\* POST /users/block/:userId: self check, then User.findById(targetUserId).
Block1(p, u, t, track) ==
    /\ req[p].pc = "idle"
    /\ protectUser(u)
    /\ LET c == castObjectId(t)
           s == [Idle EXCEPT !.op = "block", !.user = u, !.target = c, !.sent = t]
       IN req' = [req EXCEPT ![p] =
                IF t = u THEN Done(s, "InvalidOperation")
                ELSE IF c \notin Users THEN Done(s, "NotFound")
                ELSE [s EXCEPT !.pc = "blockFindUser"]]
    /\ pre' = IF track THEN Snapshot ELSE pre
    /\ UNCHANGED <<admin, profile, store, now>>

\* User.findById(req.user._id); the push and the two filters are in memory.
Block2(p) ==
    LET s == req[p] IN
    /\ s.op = "block" /\ s.pc = "blockFindUser"
    /\ req' = [req EXCEPT ![p] = [s EXCEPT !.pc = "blockSave",
                                          !.cur = likes[s.user],
                                          !.curMatches = matches[s.user],
                                          !.curBlocked = blocked[s.user]]]
    /\ UNCHANGED <<admin, profile, store, now, pre>>

\* user.save(): $push on blocked when the target was not in it; $set of
\* likes and of matches when their filter removed something, under the
\* version read (VersionError when stale).  blockedBy of the target is not
\* touched.
Block3(p) ==
    LET s == req[p]
        pushBlocked == ~includes(s.curBlocked, s.sent)
        setLikes == includes(s.cur, s.sent)
        setMatches == includes(s.curMatches, s.sent)
    IN
    /\ s.op = "block" /\ s.pc = "blockSave"
    /\ IF ~pushBlocked /\ ~setLikes /\ ~setMatches
       THEN /\ UNCHANGED <<likes, matches, blocked>>
            /\ req' = [req EXCEPT ![p] = Done(s, "OK")]
       ELSE IF (setLikes \/ setMatches) /\ s.stale
       THEN /\ UNCHANGED <<likes, matches, blocked>>
            /\ req' = [req EXCEPT ![p] = Done(s, "Internal")]
       ELSE /\ blocked' = IF pushBlocked
                          THEN [blocked EXCEPT ![s.user] = push(@, s.target)]
                          ELSE blocked
            /\ likes' = IF setLikes
                        THEN [likes EXCEPT ![s.user] = without(s.cur, s.sent)]
                        ELSE likes
            /\ matches' = IF setMatches
                          THEN [matches EXCEPT ![s.user] = without(s.curMatches, s.sent)]
                          ELSE matches
            /\ req' = [q \in Procs |->
                    IF q = p THEN Done(s, "OK")
                    ELSE MarkStale(req[q], s.user)]
    /\ UNCHANGED <<admin, profile, matchDocs, chats, now, pre>>

\* ---------------------------------------------------------------- unblock
\* DELETE /users/block/:userId: User.findById(req.user._id) and the filter
\* of blocked in memory; the target is not looked up.
Unblock1(p, u, t, track) ==
    /\ req[p].pc = "idle"
    /\ protectUser(u)
    /\ req' = [req EXCEPT ![p] =
            [Idle EXCEPT !.op = "unblock", !.pc = "unblockSave", !.user = u,
                         !.target = castObjectId(t), !.sent = t,
                         !.curBlocked = blocked[u]]]
    /\ pre' = IF track THEN Snapshot ELSE pre
    /\ UNCHANGED <<admin, profile, store, now>>

\* user.save(): nothing to send when the filter removed nothing; otherwise
\* $set blocked under the version read.
Unblock2(p) ==
    LET s == req[p] IN
    /\ s.op = "unblock" /\ s.pc = "unblockSave"
    /\ IF ~includes(s.curBlocked, s.sent)
       THEN /\ blocked' = blocked
            /\ req' = [req EXCEPT ![p] = Done(s, "OK")]
       ELSE IF s.stale
       THEN /\ blocked' = blocked
            /\ req' = [req EXCEPT ![p] = Done(s, "Internal")]
       ELSE /\ blocked' = [blocked EXCEPT ![s.user] = without(s.curBlocked, s.sent)]
            /\ req' = [q \in Procs |->
                    IF q = p THEN Done(s, "OK")
                    ELSE MarkStale(req[q], s.user)]
    /\ UNCHANGED <<admin, profile, likes, matches, matchDocs, chats, now, pre>>

\* The clock advances.
Tick ==
    /\ now < MaxTime
    /\ now' = now + 1
    /\ UNCHANGED <<admin, profile, store, req, pre>>

\* ----------------------------------------------------------------- photos
\* POST /api/users/upload-photo, up to the load of the caller's document.
\* url is the photoUrl of the body: "" when it is missing.
Upload1(p, u, url, track) ==
    /\ req[p].pc = "idle"
    /\ protectUser(u)
    /\ LET s == [Idle EXCEPT !.op = "upload", !.user = u]
       IN req' = [req EXCEPT ![p] =
                IF url = "" THEN Done(s, "InvalidInput")
                ELSE [s EXCEPT !.pc = "uploadSave",
                               !.doc = [photos |-> photos[u],
                                        profileCompleted |-> profileCompleted[u]]]]
    /\ pre' = IF track THEN Snapshot ELSE pre
    /\ UNCHANGED <<admin, profile, store, now>>

\* photos.push(photoUrl), profileCompleted = true if the loaded flag was
\* false, save(): one update with $push, $inc of __v and, if the flag
\* changed, $set of profileCompleted; it names no version in its filter.
Upload2(p) ==
    LET s == req[p] IN
    /\ s.op = "upload" /\ s.pc = "uploadSave"
    /\ photos' = [photos EXCEPT ![s.user] = @ + 1]
    /\ profileCompleted' = IF ~s.doc.profileCompleted
                           THEN [profileCompleted EXCEPT ![s.user] = TRUE]
                           ELSE profileCompleted
    /\ req' = [q \in Procs |->
            IF q = p THEN Done(s, "OK")
            ELSE MarkStale(req[q], s.user)]
    /\ UNCHANGED <<admin, isActive, isBlocked, location, blockedBy, store, now, pre>>

\* DELETE /api/users/photos/:photoIndex, up to the index check.
DeletePhoto1(p, u, photoIndex, track) ==
    /\ req[p].pc = "idle"
    /\ protectUser(u)
    /\ LET s == [Idle EXCEPT !.op = "deletePhoto", !.user = u]
       IN req' = [req EXCEPT ![p] =
                IF photoIndex < 0 \/ photoIndex >= photos[u]
                THEN Done(s, "InvalidInput")
                ELSE [s EXCEPT !.pc = "photoDeleteSave",
                               !.doc = [photos |-> photos[u],
                                        profileCompleted |-> profileCompleted[u]]]]
    /\ pre' = IF track THEN Snapshot ELSE pre
    /\ UNCHANGED <<admin, profile, store, now>>

\* photos.splice(photoIndex, 1), profileCompleted = false if none is left,
\* save(): the array is written whole, so the update names the loaded __v
\* and fails with a VersionError when the document was saved in between.
DeletePhoto2(p) ==
    LET s == req[p]
        left == s.doc.photos - 1
    IN
    /\ s.op = "deletePhoto" /\ s.pc = "photoDeleteSave"
    /\ IF s.stale
       THEN /\ UNCHANGED <<photos, profileCompleted>>
            /\ req' = [req EXCEPT ![p] = Done(s, "Internal")]
       ELSE /\ photos' = [photos EXCEPT ![s.user] = left]
            /\ profileCompleted' = IF left = 0
                                   THEN [profileCompleted EXCEPT ![s.user] = FALSE]
                                   ELSE profileCompleted
            /\ req' = [q \in Procs |->
                    IF q = p THEN Done(s, "OK")
                    ELSE MarkStale(req[q], s.user)]
    /\ UNCHANGED <<admin, isActive, isBlocked, location, blockedBy, store, now, pre>>

\* ------------------------------------------------------------------ admin
\* An Admin document is loaded; its methods then work on this copy.
AdminLoad(p, op) ==
    /\ req[p].pc = "idle"
    /\ req' = [req EXCEPT ![p] =
            [Idle EXCEPT !.op = op, !.pc = "adminUpdate",
                         !.adminDoc = [loginAttempts |-> loginAttempts,
                                       lockUntil |-> lockUntil]]]
    /\ UNCHANGED <<admin, profile, store, now, pre>>

\* adminSchema.methods.isLocked on a loaded copy
isLocked(d) == d.lockUntil # NoLock /\ d.lockUntil > now

\* this.loginAttempts + 1 >= 5 && !this.isLocked()
mustLock(d) == d.loginAttempts + 1 >= MaxLoginAttempts /\ ~isLocked(d)

\* adminSchema.methods.incLoginAttempts: the tests read the loaded copy,
\* the update ($inc, $set, $unset) acts on the stored document.
IncLoginAttempts(p) ==
    LET s == req[p]
        d == s.adminDoc
    IN
    /\ s.op = "incLoginAttempts" /\ s.pc = "adminUpdate"
    /\ IF d.lockUntil # NoLock /\ d.lockUntil < now
       THEN /\ lockUntil' = NoLock
            /\ loginAttempts' = 1
       ELSE /\ loginAttempts' = loginAttempts + 1
            /\ lockUntil' = IF mustLock(d) THEN now + LockTime ELSE lockUntil
    /\ req' = [req EXCEPT ![p] = Done(s, "OK")]
    /\ UNCHANGED <<profile, store, now, pre>>

\* adminSchema.methods.resetLoginAttempts: $unset of both fields; a document
\* loaded afterwards has the default loginAttempts 0.
ResetLoginAttempts(p) ==
    LET s == req[p] IN
    /\ s.op = "resetLoginAttempts" /\ s.pc = "adminUpdate"
    /\ loginAttempts' = 0
    /\ lockUntil' = NoLock
    /\ req' = [req EXCEPT ![p] = Done(s, "OK")]
    /\ UNCHANGED <<profile, store, now, pre>>

\* An hour passes.
AdminTick ==
    /\ now < MaxClock
    /\ now' = now + 1
    /\ UNCHANGED <<admin, profile, store, req, pre>>

\* --------------------------------------------------------------- response
\* res.json(..): the response is out and the slot is free again.
Respond(p, track) ==
    /\ req[p].pc = "done"
    /\ req' = [req EXCEPT ![p] = Idle]
    /\ pre' = IF track THEN Snapshot ELSE pre
    /\ UNCHANGED <<admin, profile, store, now>>

\* ------------------------------------------------------------------- specs
\* The two users of the pair the concurrent runs are about.
Pair == {"A", "B"}

InitStore ==
    /\ loginAttempts = 0
    /\ lockUntil = NoLock
    /\ likes = [u \in Users |-> NoIds]
    /\ matches = [u \in Users |-> NoIds]
    /\ blocked = [u \in Users |-> NoIds]
    /\ matchDocs = <<>>
    /\ chats = <<>>
    /\ now = 0
    /\ req = [p \in Procs |-> Idle]
    /\ pre = Snapshot

\* Completed profiles at one place, with nobody in blockedBy.
\* A profile is complete exactly when it has a photo (signup stores neither).
InitPhotos == photos = [u \in Users |-> IF profileCompleted[u] THEN 1 ELSE 0]

InitProfiles ==
    /\ profileCompleted = [u \in Users |-> TRUE]
    /\ InitPhotos
    /\ location = [u \in Users |-> 0]
    /\ blockedBy = [u \in Users |-> NoIds]

Init ==
    /\ isActive = [u \in Users |-> TRUE]
    /\ isBlocked = [u \in Users |-> FALSE]
    /\ InitProfiles
    /\ InitStore

\* Requests of the matching engine by the two users of a pair, interleaved
\* at every storage call.
Next ==
    \E p \in Procs :
       \/ \E u \in Pair, t \in Pair : MatchRoom(MaxMatches) /\ Like1(p, u, t, FALSE)
       \/ Like2(p)
       \/ Like3(p)
       \/ Like4(p)
       \/ \E w \in {"current", "target"} : Like5(p, w)
       \/ \E u \in Pair, t \in Pair : Dislike1(p, u, t, FALSE)
       \/ Dislike2(p)
       \/ Dislike3(p)
       \/ \E u \in Pair, mid \in 0..MaxMatches : Unmatch1(p, u, mid, FALSE)
       \/ Unmatch2(p)
       \/ Unmatch3(p)
       \/ Unmatch4(p)
       \/ Respond(p, FALSE)

Spec == Init /\ [][Next]_vars

\* One request at a time, by any user, on any id: a request starts only
\* when the one before it has been answered.  A and B are active accounts;
\* the third account may be active, deactivated or blocked.
InitSeq ==
    /\ isActive \in [Users -> BOOLEAN]
    /\ isBlocked \in [Users -> BOOLEAN]
    /\ \A u \in Pair : isActive[u] /\ ~isBlocked[u]
    /\ InitProfiles
    /\ InitStore

NextSeq ==
    \/ \E u \in Users : \E t \in Spellings(u) :
          MatchRoom(SeqMatches) /\ CopyRoom(likes[u], t, SeqCopies) /\ Like1("p1", u, t, TRUE)
    \/ Like2("p1")
    \/ Like3("p1")
    \/ Like4("p1")
    \/ \E w \in {"current", "target"} : Like5("p1", w)
    \/ \E u \in Users : \E t \in Spellings(u) : Dislike1("p1", u, t, TRUE)
    \/ Dislike2("p1")
    \/ Dislike3("p1")
    \/ \E u \in Users, mid \in 0..SeqMatches : Unmatch1("p1", u, mid, TRUE)
    \/ Unmatch2("p1")
    \/ Unmatch3("p1")
    \/ Unmatch4("p1")
    \/ Respond("p1", TRUE)

SpecSeq == InitSeq /\ [][NextSeq]_vars
\* One request at a time on the conversation ledger: the pair matches and
\* unmatches, any user sends, and the clock runs.
NextChat ==
    \/ \E u \in Pair, t \in Pair : MatchRoom(SeqMatches) /\ Like1("p1", u, t, TRUE)
    \/ Like2("p1")
    \/ Like3("p1")
    \/ Like4("p1")
    \/ \E w \in {"current", "target"} : Like5("p1", w)
    \/ \E u \in Pair, t \in Pair : Dislike1("p1", u, t, TRUE)
    \/ Dislike2("p1")
    \/ Dislike3("p1")
    \/ \E u \in Pair, mid \in 0..SeqMatches : Unmatch1("p1", u, mid, TRUE)
    \/ Unmatch2("p1")
    \/ Unmatch3("p1")
    \/ Unmatch4("p1")
    \/ \E u \in Users, mid \in 0..SeqMatches : ChatRoom(MaxChats) /\ Send1("p1", u, mid, TRUE)
    \/ Send2("p1")
    \/ Send3("p1")
    \/ Send4("p1")
    \/ Respond("p1", TRUE)
    \/ Tick

SpecChat == Init /\ [][NextChat]_vars
\* One request at a time on the conversation ledger: the pair matches and
\* unmatches; any user sends, lists, marks read, deletes and asks for the
\* unread counts.
NextLedger ==
    \/ \E u \in Pair, t \in Pair : MatchRoom(SeqMatches) /\ Like1("p1", u, t, TRUE)
    \/ Like2("p1")
    \/ Like3("p1")
    \/ Like4("p1")
    \/ \E w \in {"current", "target"} : Like5("p1", w)
    \/ \E u \in Pair, mid \in 0..SeqMatches : Unmatch1("p1", u, mid, TRUE)
    \/ Unmatch2("p1")
    \/ Unmatch3("p1")
    \/ Unmatch4("p1")
    \/ \E u \in Users, mid \in 0..SeqMatches : ChatRoom(MaxChats) /\ Send1("p1", u, mid, TRUE)
    \/ Send2("p1")
    \/ Send3("p1")
    \/ Send4("p1")
    \/ \E u \in Users, mid \in 0..SeqMatches, page \in 1..MaxPage, limit \in 1..MaxLimit :
          List1("p1", u, mid, page, limit, TRUE)
    \/ List2("p1")
    \/ List3("p1")
    \/ List4("p1")
    \/ \E u \in Users, mid \in 0..SeqMatches : Read1("p1", u, mid, TRUE)
    \/ Read2("p1")
    \/ Read3("p1")
    \/ \E u \in Users, mid \in 0..SeqMatches, msg \in 1..MaxChats : Delete1("p1", u, mid, msg, TRUE)
    \/ Delete2("p1")
    \/ Delete3("p1")
    \/ \E u \in Users : Unread1("p1", u, TRUE)
    \/ Respond("p1", TRUE)

SpecLedger == Init /\ [][NextLedger]_vars
\* Sends in the matches of the pair, interleaved at every storage call; the
\* match itself comes from likes served on one slot.
NextSends ==
    \/ \E u \in Pair, t \in Pair : MatchRoom(SeqMatches) /\ Like1("p1", u, t, FALSE)
    \/ Like2("p1")
    \/ Like3("p1")
    \/ Like4("p1")
    \/ \E w \in {"current", "target"} : Like5("p1", w)
    \/ \E p \in Procs :
          \/ \E u \in Pair, mid \in 0..SeqMatches : ChatRoom(MaxChats) /\ Send1(p, u, mid, FALSE)
          \/ Send2(p)
          \/ Send3(p)
          \/ Send4(p)
          \/ Respond(p, FALSE)

SpecSends == Init /\ [][NextSends]_vars
\* One request at a time: any user blocks, unblocks and asks for candidates.
NextBlock ==
    \/ \E u \in Users, t \in Ids : Block1("p1", u, t, TRUE)
    \/ Block2("p1")
    \/ Block3("p1")
    \/ \E u \in Users, t \in Ids : Unblock1("p1", u, t, TRUE)
    \/ Unblock2("p1")
    \/ \E u \in Users, page \in 1..MaxPage, limit \in 1..MaxLimit, maxDistance \in 0..MaxCoord :
          Discover1("p1", u, page, limit, maxDistance, TRUE)
    \/ Discover2("p1")
    \/ Respond("p1", TRUE)

SpecBlock == Init /\ [][NextBlock]_vars

\* The seeker of the discovery runs.
Seeker == "A"
\* The seeker and B are active accounts with completed profiles; C is any
\* account, anywhere; the seeker's blockedBy, which no handler writes, holds
\* any users.
InitDiscovery ==
    /\ isActive \in [Users -> BOOLEAN]
    /\ isBlocked \in [Users -> BOOLEAN]
    /\ profileCompleted \in [Users -> BOOLEAN]
    /\ \A u \in Pair : isActive[u] /\ ~isBlocked[u] /\ profileCompleted[u]
    /\ InitPhotos
    /\ location \in [Users -> 0..MaxCoord]
    /\ location[Seeker] = 0
    /\ blockedBy \in [Users -> [Users -> 0..1]]
    /\ \A u \in Users \ {Seeker} : blockedBy[u] = NoIds
    /\ InitStore

\* One request at a time by the seeker: likes, dislikes, blocks, unblocks and
\* asks for candidates.  Nobody likes the seeker, so no like is mutual.
NextDiscovery ==
    \/ \E t \in Ids : Like1("p1", Seeker, t, TRUE)
    \/ Like2("p1")
    \/ Like3("p1")
    \/ \E t \in Ids : Dislike1("p1", Seeker, t, TRUE)
    \/ Dislike2("p1")
    \/ Dislike3("p1")
    \/ \E t \in Ids : Block1("p1", Seeker, t, TRUE)
    \/ Block2("p1")
    \/ Block3("p1")
    \/ \E t \in Ids : Unblock1("p1", Seeker, t, TRUE)
    \/ Unblock2("p1")
    \/ \E page \in 1..MaxPage, limit \in 1..MaxLimit, maxDistance \in 0..MaxCoord :
          Discover1("p1", Seeker, page, limit, maxDistance, TRUE)
    \/ Discover2("p1")
    \/ Respond("p1", TRUE)

SpecDiscovery == InitDiscovery /\ [][NextDiscovery]_vars
\* Accounts of which any may never have sent a location.
InitLocation ==
    /\ isActive = [u \in Users |-> TRUE]
    /\ isBlocked = [u \in Users |-> FALSE]
    /\ profileCompleted = [u \in Users |-> TRUE]
    /\ InitPhotos
    /\ location \in [Users -> {NoLocation} \cup 0..MaxCoord]
    /\ blockedBy = [u \in Users |-> NoIds]
    /\ InitStore

\* One request at a time: any user asks for candidates.
NextLocation ==
    \/ \E u \in Users, page \in 1..MaxPage, limit \in 1..MaxLimit, maxDistance \in 0..MaxCoord :
          Discover1("p1", u, page, limit, maxDistance, TRUE)
    \/ Discover2("p1")
    \/ Respond("p1", TRUE)

SpecLocation == InitLocation /\ [][NextLocation]_vars
\* The ids of the pair as a caller of the pair spells them.
PairStrings(u) == Pair \cup {otherCase[u]}
\* One request at a time by the two users of the pair on each other (and on
\* themselves): like, dislike, block, unblock and unmatch.
NextProfiles ==
    \/ \E u \in Pair : \E t \in PairStrings(u) :
          MatchRoom(SeqMatches) /\ CopyRoom(likes[u], t, MaxCopies) /\ Like1("p1", u, t, TRUE)
    \/ Like2("p1")
    \/ Like3("p1")
    \/ Like4("p1")
    \/ \E w \in {"current", "target"} : Like5("p1", w)
    \/ \E u \in Pair : \E t \in PairStrings(u) : Dislike1("p1", u, t, TRUE)
    \/ Dislike2("p1")
    \/ Dislike3("p1")
    \/ \E u \in Pair : \E t \in PairStrings(u) : CopyRoom(blocked[u], t, MaxCopies) /\ Block1("p1", u, t, TRUE)
    \/ Block2("p1")
    \/ Block3("p1")
    \/ \E u \in Pair : \E t \in PairStrings(u) : Unblock1("p1", u, t, TRUE)
    \/ Unblock2("p1")
    \/ \E u \in Pair, mid \in 0..SeqMatches : Unmatch1("p1", u, mid, TRUE)
    \/ Unmatch2("p1")
    \/ Unmatch3("p1")
    \/ Unmatch4("p1")
    \/ Respond("p1", TRUE)

SpecProfiles == Init /\ [][NextProfiles]_vars
\* Likes only, by the users of S on each other, interleaved at every storage
\* call.
LikesAmong(S) ==
    \E p \in Procs :
       \/ \E u \in S, t \in S : MatchRoom(MaxMatches) /\ Like1(p, u, t, FALSE)
       \/ Like2(p)
       \/ Like3(p)
       \/ Like4(p)
       \/ \E w \in {"current", "target"} : Like5(p, w)
       \/ Respond(p, FALSE)

NextLikes == LikesAmong(Users)

SpecLikes == Init /\ [][NextLikes]_vars

\* The likes of one pair under the scheduling the runtime gives: a handler
\* that can take its next step takes it, and requests keep being served.
LikeStep(p) ==
    \/ Like2(p)
    \/ Like3(p)
    \/ Like4(p)
    \/ \E w \in {"current", "target"} : Like5(p, w)
    \/ Respond(p, FALSE)

NextPairLikes == LikesAmong(Pair)

SpecLikesFair ==
    /\ Init
    /\ [][NextPairLikes]_vars
    /\ WF_vars(NextPairLikes)
    /\ \A p \in Procs : WF_vars(LikeStep(p))

\* Photo uploads and deletions by A and B, two requests at a time.
InitPhotoStore ==
    /\ isActive = [u \in Users |-> TRUE]
    /\ isBlocked = [u \in Users |-> FALSE]
    /\ photos \in [Users -> 0..1]
    /\ photos["C"] = 0
    /\ profileCompleted = [u \in Users |-> photos[u] > 0]
    /\ location = [u \in Users |-> 0]
    /\ blockedBy = [u \in Users |-> NoIds]
    /\ InitStore

PhotoRoom(u) ==
    photos[u] + Cardinality({q \in Procs : req[q].pc = "uploadSave" /\ req[q].user = u}) < MaxPhotos

NextPhotos ==
    \E p \in Procs :
       \/ \E u \in Pair, url \in {"", "url"} : PhotoRoom(u) /\ Upload1(p, u, url, FALSE)
       \/ Upload2(p)
       \/ \E u \in Pair, i \in -1..MaxPhotos : DeletePhoto1(p, u, i, FALSE)
       \/ DeletePhoto2(p)
       \/ Respond(p, FALSE)

SpecPhotos == InitPhotoStore /\ [][NextPhotos]_vars

\* The arrays of ids a Match may be saved with: zero to MaxUsers users of the pair.
UserArrays == UNION {[1..n -> Pair] : n \in 0..MaxUsers}

\* One request at a time: likes within the pair (a caller's own id in either
\* spelling) and saves of Match documents with any array of users.
NextMatchSave ==
    \/ \E u \in Pair : \E t \in PairStrings(u) :
          MatchRoom(SeqMatches) /\ CopyRoom(likes[u], t, MaxCopies) /\ Like1("p1", u, t, TRUE)
    \/ Like2("p1")
    \/ Like3("p1")
    \/ Like4("p1")
    \/ \E w \in {"current", "target"} : Like5("p1", w)
    \/ \E us \in UserArrays : MatchRoom(SeqMatches) /\ MatchCreate("p1", us, TRUE)
    \/ Respond("p1", TRUE)

SpecMatchSave == Init /\ [][NextMatchSave]_vars

\* Failed and successful logins of the one admin, two at a time, and the clock.
NextAdmin ==
    \/ \E p \in Procs :
          \/ loginAttempts < MaxCounted /\ AdminLoad(p, "incLoginAttempts")
          \/ AdminLoad(p, "resetLoginAttempts")
          \/ IncLoginAttempts(p)
          \/ ResetLoginAttempts(p)
          \/ Respond(p, FALSE)
    \/ AdminTick

SpecAdmin == Init /\ [][NextAdmin]_vars

\* One request at a time by the two users of the pair: likes, blocks and
\* unblocks of each other, and messages.
NextBlockChat ==
    \/ \E u \in Pair, t \in Pair : MatchRoom(SeqMatches) /\ Like1("p1", u, t, TRUE)
    \/ Like2("p1")
    \/ Like3("p1")
    \/ Like4("p1")
    \/ \E w \in {"current", "target"} : Like5("p1", w)
    \/ \E u \in Pair, t \in Pair : Block1("p1", u, t, TRUE)
    \/ Block2("p1")
    \/ Block3("p1")
    \/ \E u \in Pair, t \in Pair : Unblock1("p1", u, t, TRUE)
    \/ Unblock2("p1")
    \/ \E u \in Pair, mid \in 0..SeqMatches : ChatRoom(MaxChats) /\ Send1("p1", u, mid, TRUE)
    \/ Send2("p1")
    \/ Send3("p1")
    \/ Send4("p1")
    \/ Respond("p1", TRUE)

SpecBlockChat == Init /\ [][NextBlockChat]_vars

\* The pair's likes one at a time, and messages and unmatches by the pair,
\* two requests at a time.
NextSendUnmatch ==
    \/ \E u \in Pair, t \in Pair : MatchRoom(SeqMatches) /\ Like1("p1", u, t, FALSE)
    \/ Like2("p1")
    \/ Like3("p1")
    \/ Like4("p1")
    \/ \E w \in {"current", "target"} : Like5("p1", w)
    \/ \E p \in Procs :
          \/ \E u \in Pair, mid \in 0..SeqMatches : ChatRoom(MaxChats) /\ Send1(p, u, mid, FALSE)
          \/ Send2(p)
          \/ Send3(p)
          \/ Send4(p)
          \/ \E u \in Pair, mid \in 0..SeqMatches : Unmatch1(p, u, mid, FALSE)
          \/ Unmatch2(p)
          \/ Unmatch3(p)
          \/ Unmatch4(p)
          \/ Respond(p, FALSE)

SpecSendUnmatch == Init /\ [][NextSendUnmatch]_vars

\* The seeker's requests, never two at a time: slot p1 serves the dislikes
\* and holds the answer of the last one while slot p2 serves the likes and
\* discoveries that follow it.
NextDislikeDiscover ==
    \/ \E t \in Ids : req["p2"].pc = "idle" /\ Dislike1("p1", Seeker, t, FALSE)
    \/ Dislike2("p1")
    \/ Dislike3("p1")
    \/ req["p2"].pc = "idle" /\ Respond("p1", FALSE)
    \/ \E t \in Ids : req["p1"].pc \in {"idle", "done"} /\ Like1("p2", Seeker, t, FALSE)
    \/ Like2("p2")
    \/ Like3("p2")
    \/ \E page \in 1..MaxPage, limit \in 1..MaxLimit, maxDistance \in 0..MaxCoord :
          req["p1"].pc \in {"idle", "done"}
             /\ Discover1("p2", Seeker, page, limit, maxDistance, FALSE)
    \/ Discover2("p2")
    \/ Respond("p2", FALSE)

SpecDislikeDiscover == InitDiscovery /\ [][NextDislikeDiscover]_vars

\* ----------------------------------------------------------------- claims
\* No request is between its first storage call and its response.
Quiescent == \A p \in Procs : req[p].pc \in {"idle", "done"}
\* a and b each hold the other in their stored likes.
MutualLikes(a, b) == includes(likes[a], b) /\ includes(likes[b], a)
\* The ids of the Match documents whose two users are a and b.
MatchesOf(a, b) == {i \in DOMAIN matchDocs : {matchDocs[i].users[1], matchDocs[i].users[2]} = {a, b}}
ActiveMatchesOf(a, b) == {i \in MatchesOf(a, b) : matchDocs[i].isActive}
\* The request of the runs that serve one request at a time.
one == req["p1"]

\* C1: once A has liked B and B has liked A and both requests are answered,
\* exactly one Match document with the users {A, B} exists, also when the two
\* likes interleave.
C1_ExactlyOneMatch ==
    \A a \in Users, b \in Users :
        (a # b /\ Quiescent /\ MutualLikes(a, b)) => Cardinality(MatchesOf(a, b)) = 1

\* C2: every pair of users has at most one Match document with isActive = true.
C2_AtMostOneActiveMatch ==
    \A a \in Users, b \in Users : Cardinality(ActiveMatchesOf(a, b)) <= 1

\* C3: run one after the other, a like is answered "OK"; it is a match exactly
\* when the target's likes held the caller before the request.  Without a
\* match no Match document and no matches entry is written; with a match,
\* one new active Match document of the two users exists and each is in the
\* other's matches list.
C3_SequentialLike ==
    (one.op = "like" /\ one.pc = "done" /\ one.res = "OK") =>
        IF includes(pre.likes[one.target], one.user)
        THEN /\ one.isMatch
             /\ Len(matchDocs) = Len(pre.matchDocs) + 1
             /\ one.mid = Len(matchDocs)
             /\ matchDocs[one.mid].isActive
             /\ one.mid \in MatchesOf(one.user, one.target)
             /\ includes(matches[one.user], one.target)
             /\ includes(matches[one.target], one.user)
        ELSE /\ ~one.isMatch
             /\ matchDocs = pre.matchDocs
             /\ matches = pre.matches

\* The scenario of C3: nothing between A and B, A has liked B (no match),
\* and B's like of A has just been answered with a match.
C3_Witness ==
    /\ one.op = "like" /\ one.pc = "done" /\ one.res = "OK"
    /\ one.user = "B" /\ one.target = "A" /\ one.isMatch
    /\ pre.likes["A"]["B"] = 1 /\ pre.likes["B"]["A"] = 0
    /\ pre.matchDocs = <<>>
    /\ matchDocs[1].users = <<"B", "A">>
    /\ matches["A"]["B"] = 1 /\ matches["B"]["A"] = 1

\* C4: whenever two users like each other and no request is in flight, an
\* active Match document of the two exists or comes to exist.
C4_MissingMatchRederived ==
    \A a \in Users, b \in Users :
        (a # b /\ Quiescent /\ MutualLikes(a, b)) ~> (ActiveMatchesOf(a, b) # {})

\* C5: at the moment a Match document is created, each of its two users is
\* in the other's stored likes.
C5_MatchOnlyOnMutualLike ==
    [][Len(matchDocs') > Len(matchDocs) =>
          LET m == matchDocs'[Len(matchDocs')]
          IN MutualLikes(m.users[1], m.users[2])]_vars

\* When an unmatch is answered "OK" neither user is in the other's matches
\* list and the Match document is stored with isActive = false.
UnmatchDone ==
    (one.op = "unmatch" /\ one.pc = "done" /\ one.res = "OK") =>
        /\ ~includes(matches[one.user], one.target)
        /\ ~includes(matches[one.target], one.user)
        /\ one.mid \in DOMAIN matchDocs
        /\ ~matchDocs[one.mid].isActive
\* A send on a match that was inactive when the request came in is answered
\* "NotFound" and stores no Chat document.
SendOnInactive ==
    (one.op = "send" /\ one.pc = "done" /\ one.mid # 0 /\ ~pre.matchDocs[one.mid].isActive) =>
        /\ one.res = "NotFound"
        /\ chats = pre.chats
\* No step removes a Match document, changes its users or makes an inactive
\* one active again.
StaysInactive ==
    \A i \in DOMAIN matchDocs :
        /\ i \in DOMAIN matchDocs'
        /\ matchDocs'[i].users = matchDocs[i].users
        /\ ~matchDocs[i].isActive => ~matchDocs'[i].isActive

C8_NoDuplicateLike ==
    \A u \in Users, t \in Users : likes[u][t] <= 1

\* C9: a like of oneself is answered "InvalidOperation", of an id without a
\* user "NotFound", of a deactivated or blocked user "Unavailable"; in each
\* case likes, matches and the Match documents are as before the request.
C9_LikePreconditions ==
    (one.op = "like" /\ one.pc = "done") =>
        /\ one.target = one.user => one.res = "InvalidOperation"
        /\ (one.target # one.user /\ one.target \notin Users) => one.res = "NotFound"
        /\ (one.target # one.user /\ one.target \in Users
              /\ (~isActive[one.target] \/ isBlocked[one.target])) => one.res = "Unavailable"
        /\ one.res \in {"InvalidOperation", "NotFound", "Unavailable"} =>
              /\ likes = pre.likes
              /\ matches = pre.matches
              /\ matchDocs = pre.matchDocs

SentTo(mid, u) == {i \in DOMAIN chats : chats[i].matchId = mid /\ chats[i].sender # u}

Answered(op, r) == one.op = op /\ one.pc = "done" /\ one.res = r
\* The users of the match a request named, as stored when it came in.
PreUsers == {pre.matchDocs[one.mid].users[1], pre.matchDocs[one.mid].users[2]}
\* The user of that match who is not the requester.
PreOther == CHOOSE x \in PreUsers : x # one.user

listOutcome(st, mid, u) ==
    IF mid = 0 \/ ~st.matchDocs[mid].isActive THEN "NotFound"
    ELSE IF u \notin {st.matchDocs[mid].users[1], st.matchDocs[mid].users[2]} THEN "Forbidden"
    ELSE "OK"
\* The messages and the Match documents listMessages by u on mid leaves.
listChats(st, mid, u) ==
    IF listOutcome(st, mid, u) = "OK" THEN listUpdateMany(st.chats, mid, u) ELSE st.chats
listMatchDocs(st, mid, u) ==
    IF listOutcome(st, mid, u) = "OK"
    THEN [st.matchDocs EXCEPT ![mid].unreadCount = [@ EXCEPT ![u] = 0]]
    ELSE st.matchDocs

LedgerOps == {"send", "list", "markRead", "delete"}
\* The read and deleted flags and the sender and match of every message.
SameMessages == chats = pre.chats
\* The unread counters of every Match document.
SameCounters ==
    /\ DOMAIN matchDocs = DOMAIN pre.matchDocs
    /\ \A i \in DOMAIN matchDocs : matchDocs[i].unreadCount = pre.matchDocs[i].unreadCount

DeleteByOther ==
    (one.op = "delete" /\ one.pc = "done" /\ one.mid # 0
        /\ pre.matchDocs[one.mid].isActive /\ one.user \in PreUsers
        /\ one.msg \in DOMAIN pre.chats
        /\ pre.chats[one.msg].matchId = one.mid
        /\ pre.chats[one.msg].sender # one.user) =>
        /\ one.res = "Forbidden"
        /\ chats = pre.chats
\* A step that sets isDeleted of a message is a step of a deleteMessage of
\* that message by its sender.
DeletedBySender ==
    \A i \in DOMAIN chats :
        (i \in DOMAIN chats' /\ ~chats[i].isDeleted /\ chats'[i].isDeleted) =>
            /\ one.op = "delete" /\ one.msg = i
            /\ one.user = chats[i].sender

DeleteKeeps ==
    Answered("delete", "OK") =>
        /\ Len(chats) = Len(pre.chats)
        /\ chats[one.msg].isDeleted
        /\ chats[one.msg].sender = pre.chats[one.msg].sender
        /\ chats[one.msg].matchId = pre.chats[one.msg].matchId
\* A listMessages returns no message that was deleted when the request came in.
ListSkipsDeleted ==
    Answered("list", "OK") =>
        \A k \in 1..Len(one.found) :
            /\ one.found[k] \in DOMAIN pre.chats
            /\ ~pre.chats[one.found[k]].isDeleted
\* No step removes a message, changes its sender or match, or clears isDeleted.
MessagesStay ==
    /\ Len(chats') >= Len(chats)
    /\ \A i \in DOMAIN chats :
          /\ chats'[i].sender = chats[i].sender
          /\ chats'[i].matchId = chats[i].matchId
          /\ chats[i].isDeleted => chats'[i].isDeleted

UnreadFor(mid, u) ==
    {i \in SentTo(mid, u) : ~chats[i].isRead /\ ~chats[i].isDeleted}

\* C17: a request for the unread counts is answered "OK" with a mapping that
\* gives, for every active match of the requester with unread messages from
\* the other user, the number of those messages.
C17_UnreadSummary ==
    (one.op = "unreadCount" /\ one.pc = "done") =>
        /\ one.res = "OK"
        /\ \A mid \in DOMAIN matchDocs :
              (matchDocs[mid].isActive /\ hasUser(matchDocs[mid], one.user)
                    /\ UnreadFor(mid, one.user) # {}) =>
                 /\ mid \in DOMAIN one.found
                 /\ one.found[mid] = Cardinality(UnreadFor(mid, one.user))

\* The users a discovery request returned.
Found == {one.found[k] : k \in 1..Len(one.found)}

\* C18: no discovery request returns the requester, whatever the
\* requester's likes, blocked and blockedBy hold.
C18_NeverSelf ==
    (one.op = "discover" /\ one.pc = "done") => one.user \notin Found

\* A discovery request of the seeker returned somebody while the seeker's
\* likes, blocked and blockedBy were all non-empty and the seeker was in
\* none of them.
C18_Witness ==
    /\ Answered("discover", "OK") /\ Found # {}
    /\ \E x \in Users : includes(likes[one.user], x)
    /\ \E x \in Users : includes(blocked[one.user], x)
    /\ \E x \in Users : includes(blockedBy[one.user], x)
    /\ ~includes(blockedBy[one.user], one.user)

C20_BlockedInverse ==
    /\ \A a \in Users, b \in Users :
          includes(blocked[a], b) <=> includes(blockedBy[b], a)
    /\ (one.op = "discover" /\ one.pc = "done") =>
          \A c \in Found : ~includes(blocked[c], one.user)

\* C21: a discovery request of a user whose location was never set is
\* answered "PreconditionFailed" and returns nobody.
C21_LocationRequired ==
    (one.op = "discover" /\ one.pc = "done" /\ location[one.user] = NoLocation) =>
        /\ one.res = "PreconditionFailed"
        /\ one.found = <<>>

\* C22: no user is in their own likes, matches or blocked.
C22_NeverInOwnSets ==
    \A u \in Users :
        /\ ~includes(likes[u], u)
        /\ ~includes(matches[u], u)
        /\ ~includes(blocked[u], u)

\* C23: in every state reached by photo uploads and deletions, also when an
\* upload and a deletion by the same user interleave, a profile is marked
\* completed exactly when it has at least one photo.
C23_CompletedIffPhotos ==
    \A u \in Users : profileCompleted[u] <=> photos[u] > 0

\* An array of exactly two ids that differ.
TwoDistinct(us) == Len(us) = 2 /\ us[1] # us[2]

\* C24: every stored Match has exactly two participants and they differ; a
\* save of a Match with fewer or more than two users, or with two equal
\* users, fails with an error and stores nothing.
C24_MatchTwoDistinct ==
    /\ \A i \in 1..Len(matchDocs) : TwoDistinct(matchDocs[i].users)
    /\ (one.op = "matchCreate" /\ one.pc = "done" /\ ~TwoDistinct(one.users)) =>
          one.res = "Internal" /\ matchDocs = pre.matchDocs
    /\ (one.op = "like" /\ one.pc = "done" /\ one.user = one.target) =>
          matchDocs = pre.matchDocs

\* The like handler, on A's second like of A, tried to save a Match of A
\* with A and failed; nothing was stored.
C24_Witness ==
    /\ Answered("like", "Internal") /\ one.user = "A" /\ one.target = "A"
    /\ likes["A"]["A"] = 2
    /\ matchDocs = pre.matchDocs

\* C25: a discovery by the seeker that ran after a dislike of theirs was
\* answered with success does not return the disliked user.
C25_DislikedStayHidden ==
    LET d == req["p1"]
        f == req["p2"]
    IN (d.op = "dislike" /\ d.pc = "done" /\ d.res = "OK"
          /\ f.op = "discover" /\ f.pc = "done" /\ f.res = "OK")
       => \A k \in 1..Len(f.found) : f.found[k] # d.target

\* An incLoginAttempts call of slot p completes in this step.
IncCompletes(p) ==
    req[p].op = "incLoginAttempts" /\ req[p].pc = "adminUpdate" /\ req'[p].pc = "done"

\* C26: when incLoginAttempts leaves the stored loginAttempts at 5 or more,
\* the account is locked (lockUntil in the future, at most 2 hours ahead),
\* also when two calls interleave; a call on a copy whose lock has expired
\* restarts loginAttempts at 1 and clears lockUntil.
C26_LockedAtFive ==
    [][\A p \in Procs : IncCompletes(p) =>
          /\ loginAttempts' >= MaxLoginAttempts =>
                lockUntil' # NoLock /\ lockUntil' > now' /\ lockUntil' <= now' + LockTime
          /\ (req[p].adminDoc.lockUntil # NoLock /\ req[p].adminDoc.lockUntil < now) =>
                loginAttempts' = 1 /\ lockUntil' = NoLock]_vars

C28_MatchesAgree ==
    Quiescent =>
        \A a \in Users : \A b \in Users \ {a} :
            /\ includes(matches[a], b) <=> includes(matches[b], a)
            /\ includes(matches[a], b) <=> ActiveMatchesOf(a, b) # {}

====
